---- MODULE Spec2Model ----
(***************************************************************************)
(* Submission Evaluation Reconciler of eval-in-gke.                        *)
(*                                                                         *)
(* Model of SubmissionResultsMonitor (demo-server/utils/dataManager.js)    *)
(* together with the persistence helpers and the scoring function of the   *)
(* demo server.  One problem owns the submissions, the job-status map and  *)
(* the baseline; a reconciliation tick (monitorJobStatuses) loads the      *)
(* whole snapshot, walks the active jobs one by one and saves the snapshot *)
(* when its hasUpdates flag is set.  The legacy top-level job map of the   *)
(* snapshot is empty, so the legacy loop of the tick has nothing to do.    *)
(***************************************************************************)
EXTENDS Integers, Sequences, FiniteSets, TLC

(***************************************************************************)
(* Bounds and program constants                                            *)
(***************************************************************************)
\* number of monitorJobStatuses executions that can be in flight at once
MaxTicks == 2
\* config.maxRetries: the configured retry threshold
MaxRetries == 2

\* the jobs registered with the problem, in the key order of its jobStatuses
JobOrder == <<"job-a", "job-b">>
Jobs == {JobOrder[i] : i \in DOMAIN JobOrder}
Slots == 1..MaxTicks

(***************************************************************************)
(* JavaScript values                                                       *)
(***************************************************************************)
Null == [t |-> "null"]
Num(n) == [t |-> "num", v |-> n]
NaN == [t |-> "nan"]

(***************************************************************************)
(* Normalized metrics as the Result Fetcher returns them.  A query record  *)
(* keeps the fields the scoring function reads; times are integers         *)
(* (milliseconds).                                                         *)
(***************************************************************************)
QueryIds == <<"Q1", "Q2", "Q3">>

Query(st, avg, cc) == [status |-> st, avg_time |-> avg, correctness_check |-> cc]

\* three queries, all success, all runs successful, 10 ms each
MetricsSame ==
  [kind |-> "metrics",
   queries |-> [q \in {"Q1", "Q2", "Q3"} |-> Query("success", Num(10), TRUE)]]

\* Q1 failed, Q2 and Q3 as in MetricsSame
MetricsOneFailed ==
  [kind |-> "metrics",
   queries |-> [q \in {"Q1", "Q2", "Q3"} |->
                  IF q = "Q1" THEN Query("failed", Null, FALSE)
                  ELSE Query("success", Num(10), TRUE)]]

\* the baseline the problem caches (processBaselineMetrics output)
BaselineA ==
  [kind |-> "metrics",
   queries |-> [q \in {"Q1", "Q2", "Q3"} |-> Query("success", Num(10), TRUE)]]

\* what fetchSubmissionResults can return
ResultNull == [kind |-> "null"]
ResultProcessing == [kind |-> "processing"]
\* a summary that parsed but carries no queries map
ResultNoQueries == [kind |-> "noqueries"]
\* placeholder for "fetchSubmissionResults was not called for this job"
NotCalled == [kind |-> "notcalled"]

ReadyResults == {MetricsSame, MetricsOneFailed}
NotReadyResults == {ResultNull, ResultProcessing, ResultNoQueries}
FetchResults == ReadyResults \cup NotReadyResults

K8sStatuses ==
  {"queued", "pending", "pending-resources", "running",
   "completed", "failed", "not-found", "unknown"}

(***************************************************************************)
(* calculateScore: the auto-scoring function handed to the monitor.        *)
(* Sums are kept as exact fractions n/d; Math.round rounds half up.        *)
(***************************************************************************)
Undefined == [t |-> "undefined"]

\* variant: the ratio is weighted 40, so the baseline's own time earns the cap
performanceScore_FullMarksAtBaseline(baseAvg, subAvg) ==
  IF baseAvg = Undefined \/ subAvg = Undefined \/ baseAvg = NaN \/ subAvg = NaN
  THEN NaN
  ELSE LET b == IF baseAvg = Null THEN 0 ELSE baseAvg.v
           s == IF subAvg = Null THEN 0 ELSE subAvg.v
       IN  IF s = 0
           THEN (IF b = 0 THEN NaN ELSE Num(<<40, 1>>))
           ELSE IF b >= s THEN Num(<<40, 1>>)
           ELSE Num(<<40 * b, s>>)

\* variant: the ratio is not capped at 40
performanceScore_NoCap(baseAvg, subAvg) ==
  IF baseAvg = Undefined \/ subAvg = Undefined \/ baseAvg = NaN \/ subAvg = NaN
  THEN NaN
  ELSE LET b == IF baseAvg = Null THEN 0 ELSE baseAvg.v
           s == IF subAvg = Null THEN 0 ELSE subAvg.v
       IN  IF s = 0
           THEN (IF b = 0 THEN NaN ELSE Num(<<40, 1>>))
           ELSE Num(<<20 * b, s>>)

\* performanceScore for one query as a fraction <<n, d>>, or NaN
performanceScore(baseAvg, subAvg) ==
  IF baseAvg = Undefined \/ subAvg = Undefined \/ baseAvg = NaN \/ subAvg = NaN
  THEN NaN
  ELSE LET b == IF baseAvg = Null THEN 0 ELSE baseAvg.v
           s == IF subAvg = Null THEN 0 ELSE subAvg.v
       IN  IF s = 0
           THEN (IF b = 0 THEN NaN ELSE Num(<<40, 1>>))
           ELSE IF 20 * b >= 40 * s THEN Num(<<40, 1>>)
           ELSE Num(<<20 * b, s>>)

\* variant: a failed query is left out of the average
RECURSIVE scoreLoop_SkipsFailed(_, _, _)
scoreLoop_SkipsFailed(sub, base, ids) ==
  IF ids = <<>>
  THEN [nan |-> FALSE, n |-> 0, d |-> 1, queryCount |-> 0]
  ELSE LET q == Head(ids)
           rest == scoreLoop_SkipsFailed(sub, base, Tail(ids))
       IN  IF q \notin DOMAIN sub.queries THEN rest
           ELSE LET sq == sub.queries[q]
                    hasBase == q \in DOMAIN base.queries
                IN  IF hasBase /\ sq.status = "success"
                       /\ base.queries[q].status = "success"
                    THEN LET p == performanceScore(base.queries[q].avg_time, sq.avg_time)
                             c == IF sq.correctness_check THEN 60 ELSE 0
                         IN  IF p = NaN
                             THEN [rest EXCEPT !.nan = TRUE,
                                               !.queryCount = @ + 1]
                             ELSE [rest EXCEPT
                                     !.n = (p.v[1] + c * p.v[2]) * rest.d
                                           + rest.n * p.v[2],
                                     !.d = rest.d * p.v[2],
                                     !.queryCount = @ + 1]
                    ELSE rest

\* variant: every query of the submission counts in the denominator
RECURSIVE scoreLoop_CountsAll(_, _, _)
scoreLoop_CountsAll(sub, base, ids) ==
  IF ids = <<>>
  THEN [nan |-> FALSE, n |-> 0, d |-> 1, queryCount |-> 0]
  ELSE LET q == Head(ids)
           rest == scoreLoop_CountsAll(sub, base, Tail(ids))
       IN  IF q \notin DOMAIN sub.queries THEN rest
           ELSE LET sq == sub.queries[q]
                    hasBase == q \in DOMAIN base.queries
                IN  IF hasBase /\ sq.status = "success"
                       /\ base.queries[q].status = "success"
                    THEN LET p == performanceScore(base.queries[q].avg_time, sq.avg_time)
                             c == IF sq.correctness_check THEN 60 ELSE 0
                         IN  IF p = NaN
                             THEN [rest EXCEPT !.nan = TRUE,
                                               !.queryCount = @ + 1]
                             ELSE [rest EXCEPT
                                     !.n = (p.v[1] + c * p.v[2]) * rest.d
                                           + rest.n * p.v[2],
                                     !.d = rest.d * p.v[2],
                                     !.queryCount = @ + 1]
                    ELSE [rest EXCEPT !.queryCount = @ + 1]

\* the loop of calculateScore over the submission's queries, in key order
RECURSIVE scoreLoop(_, _, _)
scoreLoop(sub, base, ids) ==
  IF ids = <<>>
  THEN [nan |-> FALSE, n |-> 0, d |-> 1, queryCount |-> 0]
  ELSE LET q == Head(ids)
           rest == scoreLoop(sub, base, Tail(ids))
       IN  IF q \notin DOMAIN sub.queries THEN rest
           ELSE LET sq == sub.queries[q]
                    hasBase == q \in DOMAIN base.queries
                IN  IF hasBase /\ sq.status = "success"
                       /\ base.queries[q].status = "success"
                    THEN LET p == performanceScore(base.queries[q].avg_time, sq.avg_time)
                             c == IF sq.correctness_check THEN 60 ELSE 0
                         IN  IF p = NaN
                             THEN [rest EXCEPT !.nan = TRUE,
                                               !.queryCount = @ + 1]
                             ELSE [rest EXCEPT
                                     !.n = (p.v[1] + c * p.v[2]) * rest.d
                                           + rest.n * p.v[2],
                                     !.d = rest.d * p.v[2],
                                     !.queryCount = @ + 1]
                    ELSE IF sq.status = "failed"
                    THEN [rest EXCEPT !.queryCount = @ + 1]
                    ELSE rest

calculateScore(submissionMetrics, baselineMetrics) ==
  IF baselineMetrics.kind # "metrics" \/ submissionMetrics.kind # "metrics"
  THEN Num(0)
  ELSE LET acc == scoreLoop(submissionMetrics, baselineMetrics, QueryIds)
       IN  IF acc.queryCount = 0 THEN Num(0)
           ELSE IF acc.nan THEN NaN
           ELSE Num((2 * acc.n + acc.d * acc.queryCount)
                    \div (2 * acc.d * acc.queryCount))

(***************************************************************************)
(* State                                                                   *)
(***************************************************************************)
VARIABLES
  store,               \* the persisted snapshot (data.json), one problem
  submissions,         \* the submissions kept by DataManager (submissions.json)
  call,                \* a call of one of the monitor's helpers: input and result
  tk,                  \* the executions of monitorJobStatuses, by slot
  isMonitoring,        \* this.isMonitoring
  monitoringInterval,  \* this.monitoringInterval holds a timer handle
  timers               \* the number of interval timers alive in the runtime

vars == <<store, submissions, call, tk, isMonitoring, monitoringInterval, timers>>

NullMetrics == [kind |-> "null"]

\* the job-status values the tick keeps polling
ActiveStatuses == {"running", "queued", "processing", "pending", "pending-resources"}
TerminalStatuses == {"evaluated", "failed"}

\* a submission as createSubmission builds it; errorCount is absent, read as 0
NewSubmission ==
  [status |-> "submitted", metrics |-> NullMetrics, autoScore |-> Null,
   errorCount |-> 0, completedAt |-> "null", error |-> "null"]

\* the snapshot once the jobs are registered with the problem
InitData ==
  [subs |-> [j \in Jobs |-> NewSubmission],
   jobStatuses |-> [j \in Jobs |-> "queued"],
   baselineMetrics |-> NullMetrics]

NoData == [subs |-> <<>>, jobStatuses |-> <<>>, baselineMetrics |-> NullMetrics]
\* the job of the iteration just run, with the answers it got
NoObs == [job |-> "none", k8s |-> "none", res |-> NotCalled, threw |-> FALSE]

\* no helper call is being looked at
NoCall == [fn |-> "none"]

IdleTick ==
  [pc |-> "idle", data |-> NoData, todo |-> <<>>,
   cur |-> NoObs, hasUpdates |-> FALSE]

InFlight(t) == tk[t].pc \in {"load", "run"}
NoTickInFlight == \A t \in Slots : ~InFlight(t)
HasFreeSlot == \E t \in Slots : ~InFlight(t)
FreeSlot == CHOOSE t \in Slots : ~InFlight(t) /\ \A u \in Slots : ~InFlight(u) => t <= u

(***************************************************************************)
(* monitorJobStatuses, per active job                                      *)
(***************************************************************************)
\* Object.entries(problem.jobStatuses).filter(active), in key order
\* variant: the filter lets every job of the map through
activeJobs_NoFilter(data) == JobOrder

activeJobs(data) ==
  SelectSeq(JobOrder, LAMBDA j : data.jobStatuses[j] \in ActiveStatuses)

hasQueries(r) == r.kind = "metrics"

\* variant: the score is not computed
markEvaluated_NoScore(data, j, r) ==
  [data EXCEPT
     !.subs[j].metrics = r,
     !.subs[j].status = "evaluated",
     !.subs[j].completedAt = "ts",
     !.jobStatuses[j] = "completed"]

\* variant: the retry counter is bumped on the way
markEvaluated_CountsError(data, j, r) ==
  [data EXCEPT
     !.subs[j].metrics = r,
     !.subs[j].status = "evaluated",
     !.subs[j].completedAt = "ts",
     !.subs[j].errorCount = @ + 1,
     !.subs[j].autoScore =
        IF data.baselineMetrics # NullMetrics
        THEN calculateScore(r, data.baselineMetrics) ELSE @,
     !.jobStatuses[j] = "completed"]

\* variant: the fetched summary is not stored on the submission
markEvaluated_NoMetrics(data, j, r) ==
  [data EXCEPT
     !.subs[j].status = "evaluated",
     !.subs[j].completedAt = "ts",
     !.subs[j].autoScore =
        IF data.baselineMetrics # NullMetrics
        THEN calculateScore(r, data.baselineMetrics) ELSE @,
     !.jobStatuses[j] = "completed"]

\* variant: the score is computed without looking at the baseline
markEvaluated_ScoresWithoutBaseline(data, j, r) ==
  [data EXCEPT
     !.subs[j].metrics = r,
     !.subs[j].status = "evaluated",
     !.subs[j].completedAt = "ts",
     !.subs[j].autoScore = calculateScore(r, data.baselineMetrics),
     !.jobStatuses[j] = "completed"]

\* metrics found: the submission becomes evaluated and is scored
markEvaluated(data, j, r) ==
  [data EXCEPT
     !.subs[j].metrics = r,
     !.subs[j].status = "evaluated",
     !.subs[j].completedAt = "ts",
     !.subs[j].autoScore =
        IF data.baselineMetrics # NullMetrics
        THEN calculateScore(r, data.baselineMetrics) ELSE @,
     !.jobStatuses[j] = "completed"]

\* variant: the threshold test is > instead of >=
countError_OffByOne(data, j, msg) ==
  LET n == data.subs[j].errorCount + 1
  IN  IF n > MaxRetries
      THEN [data EXCEPT !.subs[j].errorCount = n,
                        !.subs[j].status = "failed",
                        !.subs[j].completedAt = "ts",
                        !.subs[j].error = msg,
                        !.jobStatuses[j] = "failed"]
      ELSE [data EXCEPT !.subs[j].errorCount = n]

\* variant: the submission fails one retry before maxRetries
countError_FailsEarly(data, j, msg) ==
  LET n == data.subs[j].errorCount + 1
  IN  IF n >= MaxRetries - 1
      THEN [data EXCEPT !.subs[j].errorCount = n,
                        !.subs[j].status = "failed",
                        !.subs[j].completedAt = "ts",
                        !.subs[j].error = msg,
                        !.jobStatuses[j] = "failed"]
      ELSE [data EXCEPT !.subs[j].errorCount = n]

\* errorCount = (errorCount || 0) + 1, failed once it reaches maxRetries
countError(data, j, msg) ==
  LET n == data.subs[j].errorCount + 1
  IN  IF n >= MaxRetries
      THEN [data EXCEPT !.subs[j].errorCount = n,
                        !.subs[j].status = "failed",
                        !.subs[j].completedAt = "ts",
                        !.subs[j].error = msg,
                        !.jobStatuses[j] = "failed"]
      ELSE [data EXCEPT !.subs[j].errorCount = n]

\* variant: the job-status map entry is left active
markJobFailed_KeepsPolling(data, j) ==
  [data EXCEPT !.subs[j].status = "failed",
               !.subs[j].completedAt = "ts",
               !.subs[j].error = "Job failed in Kubernetes"]

\* the orchestrator reports the job failed
markJobFailed(data, j) ==
  [data EXCEPT !.subs[j].status = "failed",
               !.subs[j].completedAt = "ts",
               !.subs[j].error = "Job failed in Kubernetes",
               !.jobStatuses[j] = "failed"]

\* variant: mirroring a status restarts the retry counter
mirrorStatus_ResetsCount(data, j, st) ==
  [data EXCEPT !.jobStatuses[j] = st, !.subs[j].status = st,
               !.subs[j].errorCount = 0]

\* the job-status map entry and the submission take the status st
mirrorStatus(data, j, st) ==
  [data EXCEPT !.jobStatuses[j] = st, !.subs[j].status = st]

\* does the branch taken for answer k call fetchSubmissionResults
callsFetch(data, j, k) ==
  \/ k \in {"completed", "not-found"}
  \/ k \notin {"failed", "pending-resources", "pending", "running"}
  \/ k = "running" /\ data.jobStatuses[j] = "running"

\* the body of the loop for job j: the snapshot after it
processJobData(data, j, k, r) ==
  IF k = "completed"
  THEN IF hasQueries(r) THEN markEvaluated(data, j, r)
       ELSE IF data.jobStatuses[j] # "processing"
            THEN mirrorStatus(data, j, "processing")
            ELSE data
  ELSE IF k = "failed"
  THEN markJobFailed(data, j)
  ELSE IF k \in {"pending-resources", "pending"}
  THEN IF data.jobStatuses[j] # k THEN mirrorStatus(data, j, k) ELSE data
  ELSE IF k = "running" /\ data.jobStatuses[j] # "running"
  THEN mirrorStatus(data, j, "running")
  ELSE IF k = "not-found"
  THEN IF hasQueries(r) THEN markEvaluated(data, j, r)
       ELSE countError(data, j, "Job not found in Kubernetes and no results available")
  ELSE IF hasQueries(r) THEN markEvaluated(data, j, r)
       ELSE IF r.kind = "processing"
            THEN [data EXCEPT !.jobStatuses[j] = "processing"]
            ELSE countError(data, j, "Timeout waiting for results")

\* the body of the loop for job j: is hasUpdates set by it
processJobUpdates(data, j, k, r) ==
  IF k = "completed"
  THEN hasQueries(r) \/ data.jobStatuses[j] # "processing"
  ELSE IF k = "failed" THEN TRUE
  ELSE IF k \in {"pending-resources", "pending"}
  THEN data.jobStatuses[j] # k
  ELSE IF k = "running" /\ data.jobStatuses[j] # "running" THEN TRUE
  ELSE IF k = "not-found"
  THEN hasQueries(r) \/ data.subs[j].errorCount + 1 >= MaxRetries
  ELSE \/ hasQueries(r)
       \/ r.kind = "processing" /\ data.jobStatuses[j] # "processing"
       \/ r.kind # "processing" /\ data.subs[j].errorCount + 1 >= MaxRetries

(***************************************************************************)
(* Actions                                                                 *)
(***************************************************************************)
Init ==
  /\ store = InitData
  /\ submissions = {}
  /\ call = NoCall
  /\ tk = [t \in Slots |-> IdleTick]
  /\ isMonitoring = FALSE
  /\ monitoringInterval = FALSE
  /\ timers = 0

\* a call of monitorJobStatuses begins: loadDataFn is awaited
launch ==
  /\ HasFreeSlot
  /\ tk' = [tk EXCEPT ![FreeSlot] = [IdleTick EXCEPT !.pc = "load"]]

\* overlap = FALSE: the caller starts a tick only when none is in flight
\* variant: no test of isMonitoring, every call starts a tick and a timer
startMonitoring_NoGuard(overlap) ==
  /\ overlap \/ NoTickInFlight
  /\ launch
  /\ monitoringInterval' = TRUE
  /\ timers' = timers + 1
  /\ isMonitoring' = TRUE
  /\ UNCHANGED <<store, submissions, call>>

startMonitoring(overlap) ==
  /\ overlap \/ NoTickInFlight
  /\ IF isMonitoring
     THEN UNCHANGED vars
     ELSE /\ launch
          /\ monitoringInterval' = TRUE
          /\ timers' = timers + 1
          /\ isMonitoring' = TRUE
          /\ UNCHANGED <<store, submissions, call>>

intervalFires(overlap) ==
  /\ monitoringInterval
  /\ overlap \/ NoTickInFlight
  /\ launch
  /\ UNCHANGED <<store, submissions, call, isMonitoring, monitoringInterval, timers>>

\* variant: stopping drops the executions that are in flight
stopMonitoring_AbortsTicks ==
  /\ monitoringInterval' = FALSE
  /\ timers' = IF monitoringInterval THEN timers - 1 ELSE timers
  /\ isMonitoring' = FALSE
  /\ tk' = [t \in Slots |-> IF InFlight(t) THEN IdleTick ELSE tk[t]]
  /\ UNCHANGED <<store, submissions, call>>

stopMonitoring ==
  /\ monitoringInterval' = FALSE
  /\ timers' = IF monitoringInterval THEN timers - 1 ELSE timers
  /\ isMonitoring' = FALSE
  /\ UNCHANGED <<store, submissions, call, tk>>

triggerMonitoring(overlap) ==
  /\ overlap \/ NoTickInFlight
  /\ launch
  /\ UNCHANGED <<store, submissions, call, isMonitoring, monitoringInterval, timers>>

\* loadDataFn resolves: the file is read and parsed into a fresh snapshot
tickLoad(t) ==
  /\ tk[t].pc = "load"
  /\ tk' = [tk EXCEPT ![t].pc = "run",
                      ![t].data = store,
                      ![t].todo = activeJobs(store)]
  /\ UNCHANGED <<store, submissions, call, isMonitoring, monitoringInterval, timers>>

\* one iteration of the loop over activeJobs; K and R are the answers the
\* orchestrator and the object store can give
tickProcess(t, K, R) ==
  /\ tk[t].pc = "run"
  /\ tk[t].todo # <<>>
  /\ LET j == Head(tk[t].todo)
         d == tk[t].data
     IN  \E k \in K :
           \E r \in (IF callsFetch(d, j, k) THEN R ELSE {NotCalled}) :
             tk' = [tk EXCEPT
                      ![t].data = processJobData(d, j, k, r),
                      ![t].hasUpdates = @ \/ processJobUpdates(d, j, k, r),
                      ![t].cur = [job |-> j, k8s |-> k, res |-> r, threw |-> FALSE],
                      ![t].todo = Tail(@)]
  /\ UNCHANGED <<store, submissions, call, isMonitoring, monitoringInterval, timers>>

\* after the loop: saveDataFn(data) if hasUpdates, then return hasUpdates
tickSave(t) ==
  /\ tk[t].pc = "run"
  /\ tk[t].todo = <<>>
  /\ store' = IF tk[t].hasUpdates THEN tk[t].data ELSE store
  /\ tk' = [tk EXCEPT ![t] = [IdleTick EXCEPT !.pc = "done",
                                               !.hasUpdates = tk[t].hasUpdates]]
  /\ UNCHANGED <<submissions, call, isMonitoring, monitoringInterval, timers>>

\* fetchBaselineMetrics caches the baseline of the problem
fetchBaselineMetrics(overlap) ==
  /\ overlap \/ NoTickInFlight
  /\ store.baselineMetrics = NullMetrics
  /\ store' = [store EXCEPT !.baselineMetrics = BaselineA]
  /\ UNCHANGED <<submissions, call, tk, isMonitoring, monitoringInterval, timers>>

\* The server with ticks run one after the other: a tick is started (by
\* the timer, by startMonitoring or by the trigger endpoint) only when no
\* other tick is in flight, and the baseline is cached between ticks.
Next ==
  \/ startMonitoring(FALSE)
  \/ intervalFires(FALSE)
  \/ stopMonitoring
  \/ triggerMonitoring(FALSE)
  \/ fetchBaselineMetrics(FALSE)
  \/ \E t \in Slots : tickLoad(t)
  \/ \E t \in Slots : tickProcess(t, K8sStatuses, FetchResults)
  \/ \E t \in Slots : tickSave(t)

Spec == Init /\ [][Next]_vars

(***************************************************************************)
(* Steps of a tick, as seen between two states                             *)
(***************************************************************************)
\* execution t runs the loop body for job j
Processed(t, j) ==
  /\ tk[t].pc = "run"
  /\ tk[t].todo # <<>>
  /\ Head(tk[t].todo) = j
  /\ tk'[t].pc = "run"
  /\ tk'[t].todo = Tail(tk[t].todo)

\* execution t passes the save at the end of monitorJobStatuses
Finished(t) ==
  /\ tk[t].pc = "run"
  /\ tk[t].todo = <<>>
  /\ tk'[t].pc = "done"

\* an iteration leaves the submissions of the other jobs alone, and what the
\* tick has flagged with hasUpdates is what the save writes
TickFrame ==
  \A t \in Slots :
    /\ \A j \in Jobs :
         Processed(t, j) =>
           /\ \A o \in Jobs \ {j} : tk'[t].data.subs[o] = tk[t].data.subs[o]
           /\ tk[t].hasUpdates => tk'[t].hasUpdates
    /\ Finished(t) /\ tk[t].hasUpdates => store' = tk[t].data

PendingLike == {"pending-resources", "pending", "running", "queued"}

(***************************************************************************)
(* Properties                                                              *)
(***************************************************************************)

C2_ErrorCountKeptWhilePending ==
  [][\A t \in Slots, j \in Jobs :
       Processed(t, j) /\ tk'[t].cur.k8s \in PendingLike =>
         tk'[t].data.subs[j].errorCount = tk[t].data.subs[j].errorCount]_vars

\* C3: a tick calls saveDataFn exactly when its snapshot differs from the one
\* it loaded, so the store holds every change of the tick once it is over.
C3_EveryMutationSaved ==
  [][\A t \in Slots :
       Finished(t) =>
         /\ tk[t].hasUpdates <=> tk[t].data # store
         /\ store' = tk[t].data]_vars

(***************************************************************************)
(* Ticks against a job whose results never become ready: the orchestrator  *)
(* keeps answering completed, not-found or unknown and the store keeps     *)
(* answering "no summary" (with or without log files).  Ticks are repeated *)
(* fairly and every started tick runs to its end.                          *)
(***************************************************************************)
StuckK8s == {"completed", "not-found", "unknown"}
StuckResults == {ResultNull, ResultProcessing}

tickStepStuck ==
  \E t \in Slots :
    \/ tickLoad(t)
    \/ tickProcess(t, StuckK8s, StuckResults)
    \/ tickSave(t)

NextStuck ==
  \/ triggerMonitoring(FALSE)
  \/ fetchBaselineMetrics(FALSE)
  \/ tickStepStuck

SpecStuck ==
  /\ Init
  /\ [][NextStuck]_vars
  /\ WF_vars(triggerMonitoring(FALSE))
  /\ WF_vars(tickStepStuck)

\* C4: under fair ticks with results never ready, a submission in status
\* processing eventually becomes failed with an error message.
C4_ProcessingEventuallyFails ==
  \A j \in Jobs :
    (store.subs[j].status = "processing")
      ~> (store.subs[j].status = "failed" /\ store.subs[j].error # "null")

\* C5: completed and metrics fetched: the submission is evaluated, holds the
\* fetched metrics, has completedAt set and is scored against a non-null
\* baseline; the tick saves it.
C5_CompletedReadyEvaluates ==
  [][/\ TickFrame
     /\ \A t \in Slots, j \in Jobs :
          Processed(t, j) /\ tk'[t].cur.k8s = "completed"
                          /\ hasQueries(tk'[t].cur.res) =>
            LET new == tk'[t].data.subs[j]
                base == tk[t].data.baselineMetrics
            IN  /\ new.status = "evaluated"
                /\ new.metrics = tk'[t].cur.res
                /\ new.completedAt # "null"
                /\ base # NullMetrics =>
                     new.autoScore = calculateScore(tk'[t].cur.res, base)
                /\ tk'[t].hasUpdates]_vars

\* C5 witness: a completed job with the baseline-identical summary has just
\* been evaluated and scored (20 for equal time plus 60 for correctness).
C5_Witness ==
  \E t \in Slots :
    /\ tk[t].pc = "run"
    /\ tk[t].cur.k8s = "completed"
    /\ tk[t].cur.res = MetricsSame
    /\ tk[t].data.subs[tk[t].cur.job].status = "evaluated"
    /\ tk[t].data.subs[tk[t].cur.job].autoScore = Num(80)

\* C6: completed with no summary (Processing or Absent): the submission's
\* status is processing after the iteration and errorCount is unchanged.
C6_CompletedNotReadyProcessing ==
  [][\A t \in Slots, j \in Jobs :
       Processed(t, j) /\ tk'[t].cur.k8s = "completed"
                       /\ tk'[t].cur.res \in {ResultNull, ResultProcessing} =>
         /\ tk'[t].data.subs[j].status = "processing"
         /\ tk'[t].data.subs[j].errorCount = tk[t].data.subs[j].errorCount]_vars

\* every answer so far was "completed" from the orchestrator and "nothing
\* there" from the store
OnlyCompletedAbsent ==
  \A t \in Slots :
    /\ tk[t].cur.k8s \in {"none", "completed"}
    /\ tk[t].cur.res \in {NotCalled, ResultNull}

\* C7: Scenario B: if the orchestrator always reports completed and the store
\* stays empty, every submission ends failed with the timeout message.
C7_ScenarioB ==
  []OnlyCompletedAbsent =>
    \A j \in Jobs :
      <>(/\ store.subs[j].status = "failed"
         /\ store.subs[j].error = "Timeout waiting for results")

C9_NotFoundCountsRetries ==
  [][\A t \in Slots, j \in Jobs :
       Processed(t, j) /\ tk'[t].cur.k8s = "not-found"
                       /\ ~hasQueries(tk'[t].cur.res) =>
         LET old == tk[t].data.subs[j]
             new == tk'[t].data.subs[j]
         IN  /\ new.errorCount = old.errorCount + 1
             /\ old.errorCount < MaxRetries
             /\ new.errorCount >= MaxRetries =>
                  /\ new.status = "failed"
                  /\ new.error = "Job not found in Kubernetes and no results available"
                  /\ new.completedAt # "null"
                  /\ tk'[t].hasUpdates
             /\ new.errorCount < MaxRetries =>
                  /\ new.status = old.status
                  /\ new.status \notin TerminalStatuses
                  /\ new.error = old.error]_vars

\* C9 witness: a not-found answer took errorCount to maxRetries and the
\* submission failed.
C9_Witness ==
  \E t \in Slots :
    /\ tk[t].pc = "run"
    /\ tk[t].cur.k8s = "not-found"
    /\ tk[t].cur.res = ResultNull
    /\ tk[t].data.subs[tk[t].cur.job].errorCount = MaxRetries
    /\ tk[t].data.subs[tk[t].cur.job].status = "failed"

\* C10: Scenario C: not-found with a valid summary in the store: one
\* iteration takes the submission from its current status straight to
\* evaluated, with metrics and score set and errorCount untouched.
C10_ScenarioC ==
  [][/\ TickFrame
     /\ \A t \in Slots, j \in Jobs :
          Processed(t, j) /\ tk'[t].cur.k8s = "not-found"
                          /\ hasQueries(tk'[t].cur.res) =>
            LET old == tk[t].data.subs[j]
                new == tk'[t].data.subs[j]
                base == tk[t].data.baselineMetrics
            IN  /\ old.status # "processing" => new.status = "evaluated"
                /\ new.status = "evaluated"
                /\ new.metrics = tk'[t].cur.res
                /\ new.errorCount = old.errorCount
                /\ base # NullMetrics =>
                     new.autoScore = calculateScore(tk'[t].cur.res, base)
                /\ tk'[t].hasUpdates]_vars

\* C10 witness: a freshly submitted job, never seen processing, is evaluated
\* by a not-found answer with a summary in the store.
C10_Witness ==
  \E t \in Slots :
    /\ tk[t].pc = "run"
    /\ tk[t].cur.k8s = "not-found"
    /\ tk[t].cur.res = MetricsOneFailed
    /\ store.subs[tk[t].cur.job].status = "submitted"
    /\ tk[t].data.subs[tk[t].cur.job].status = "evaluated"
    /\ tk[t].data.subs[tk[t].cur.job].autoScore = Num(53)

\* C11: Scenario E: a tick in which the adapter answers unknown and the store
\* has nothing for the job leaves the persisted status of the submission as
\* it was and the persisted errorCount one higher than before the tick.
C11_ScenarioE ==
  [][\A t \in Slots :
       Finished(t) /\ tk[t].cur.k8s = "unknown" /\ tk[t].cur.res = ResultNull =>
         LET j == tk[t].cur.job
         IN  /\ store'.subs[j].status = store.subs[j].status
             /\ store'.subs[j].errorCount = store.subs[j].errorCount + 1]_vars

\* C12: unknown from the adapter: metrics make the submission evaluated, a
\* Processing answer sets the submission's own status to processing and keeps
\* errorCount, and only an Absent answer adds one to errorCount.
C12_UnknownAsCompleted ==
  [][\A t \in Slots, j \in Jobs :
       Processed(t, j) /\ tk'[t].cur.k8s = "unknown" =>
         LET old == tk[t].data.subs[j]
             new == tk'[t].data.subs[j]
             r == tk'[t].cur.res
         IN  /\ hasQueries(r) => new.status = "evaluated"
             /\ r = ResultProcessing =>
                  /\ new.status = "processing"
                  /\ new.errorCount = old.errorCount
             /\ r = ResultNull => new.errorCount = old.errorCount + 1
             /\ r # ResultNull /\ r # ResultNoQueries =>
                  new.errorCount = old.errorCount]_vars

\* C13: the adapter answers pending-resources, pending, running or queued for
\* the job of a non-terminal submission: after the iteration the submission's
\* status is the reported one.
C13_PendingMirrored ==
  [][\A t \in Slots, j \in Jobs :
       /\ Processed(t, j)
       /\ tk'[t].cur.k8s \in PendingLike
       /\ tk[t].data.subs[j].status \notin TerminalStatuses
       => tk'[t].data.subs[j].status = tk'[t].cur.k8s]_vars

(***************************************************************************)
(* The server as it runs: startMonitoring starts a tick at once and arms   *)
(* the timer, the timer and the trigger endpoint start a tick whatever is  *)
(* in flight, and teams post submissions.  The orchestrator answers        *)
(* running or failed and the store has nothing yet.                        *)
(***************************************************************************)
\* job ids handed out by createJobUsingScript for posted submissions
PostJobs == {"job-c"}

\* POST /api/problems/:problemId/submissions: the job is created and the
\* submission is stored through DataManager.createSubmission
createSubmission(j) ==
  /\ \A s \in submissions : s.jobId # j
  /\ submissions' = submissions \cup
       {[jobId |-> j, status |-> "submitted",
         metrics |-> NullMetrics, autoScore |-> Null]}
  /\ UNCHANGED <<store, call, tk, isMonitoring, monitoringInterval, timers>>

BusyK8s == {"running", "failed"}
BusyResults == {ResultNull}

NextServer ==
  \/ startMonitoring(TRUE)
  \/ intervalFires(TRUE)
  \/ triggerMonitoring(TRUE)
  \/ \E j \in PostJobs : createSubmission(j)
  \/ \E t \in Slots : tickLoad(t)
  \/ \E t \in Slots : tickProcess(t, BusyK8s, BusyResults)
  \/ \E t \in Slots : tickSave(t)

SpecServer == Init /\ [][NextServer]_vars

\* the job ids a tick is going to ask the adapter about
Polled(t) == {tk'[t].todo[i] : i \in DOMAIN tk'[t].todo}

\* C14: when a tick has loaded the snapshot, every submission whose status is
\* neither evaluated nor failed has its job among the jobs the tick polls.
C14_EveryOpenSubmissionPolled ==
  [][\A t \in Slots :
       tk[t].pc = "load" /\ tk'[t].pc = "run" =>
         /\ \A j \in Jobs :
              store.subs[j].status \notin TerminalStatuses => j \in Polled(t)
         /\ \A s \in submissions :
              s.status \notin TerminalStatuses => s.jobId \in Polled(t)]_vars

\* C15: at most one execution of monitorJobStatuses is between its load and
\* its save.
C15_TicksNeverOverlap ==
  Cardinality({t \in Slots : tk[t].pc = "run"}) <= 1

\* C16: a tick's save does not replace what another tick has written since
\* the snapshot was loaded: a submission that is evaluated or failed in the
\* store is the same after the save.
C16_TriggerSerialized ==
  [][\A t \in Slots :
       Finished(t) =>
         \A j \in Jobs :
           store.subs[j].status \in TerminalStatuses =>
             store'.subs[j] = store.subs[j]]_vars

(***************************************************************************)
(* The monitor with a scoring callback that can throw.  calculateScoreFn   *)
(* is called after metrics, status and completedAt have been assigned; the *)
(* catch block of the loop body then counts the error.                     *)
(***************************************************************************)
\* the assignments made before calculateScoreFn is called
assignBeforeScore(data, j, r) ==
  [data EXCEPT !.subs[j].metrics = r,
               !.subs[j].status = "evaluated",
               !.subs[j].completedAt = "ts"]

\* variant: the catch block only logs
catchError_Swallows(data, j) == data

\* catch (error): errorCount + 1, failed once it reaches maxRetries
catchError(data, j) == countError(data, j, "Monitoring error")

\* one iteration of the loop in which calculateScoreFn throws
tickProcessThrows(t, K, R) ==
  /\ tk[t].pc = "run"
  /\ tk[t].todo # <<>>
  /\ LET j == Head(tk[t].todo)
         d == tk[t].data
     IN  /\ d.baselineMetrics # NullMetrics
         /\ \E k \in K, r \in R :
              /\ callsFetch(d, j, k)
              /\ hasQueries(r)
              /\ tk' = [tk EXCEPT
                          ![t].data = catchError(assignBeforeScore(d, j, r), j),
                          ![t].hasUpdates =
                             @ \/ d.subs[j].errorCount + 1 >= MaxRetries,
                          ![t].cur = [job |-> j, k8s |-> k, res |-> r,
                                      threw |-> TRUE],
                          ![t].todo = Tail(@)]
  /\ UNCHANGED <<store, submissions, call, isMonitoring, monitoringInterval, timers>>

\* the answers of the orchestrator and of the store in these runs
ThrowK8s == {"completed", "not-found", "running", "failed", "unknown"}
ThrowResults == {MetricsSame, ResultNull, ResultProcessing}

NextThrow ==
  \/ triggerMonitoring(FALSE)
  \/ fetchBaselineMetrics(FALSE)
  \/ \E t \in Slots : tickLoad(t)
  \/ \E t \in Slots : tickProcess(t, ThrowK8s, ThrowResults)
  \/ \E t \in Slots : tickProcessThrows(t, ThrowK8s, ThrowResults)
  \/ \E t \in Slots : tickSave(t)

SpecThrow == Init /\ [][NextThrow]_vars

\* C17: an error thrown in the iteration of one job is caught: that
\* submission's errorCount grows by one and it is failed exactly when the
\* count reaches maxRetries; the other jobs are left alone by that iteration,
\* the loop goes on, and every iteration that does not throw gives its job
\* the outcome computed from the loaded snapshot alone.
C17_ThrownErrorCounted ==
  [][\A t \in Slots, j \in Jobs :
       /\ Processed(t, j) /\ tk'[t].cur.threw =>
            LET old == tk[t].data.subs[j]
                new == tk'[t].data.subs[j]
            IN  /\ new.errorCount = old.errorCount + 1
                /\ new.errorCount >= MaxRetries =>
                     /\ new.status = "failed"
                     /\ new.error # "null"
                     /\ tk'[t].hasUpdates
                /\ new.errorCount < MaxRetries => new.status # "failed"
                /\ \A o \in Jobs \ {j} :
                     /\ tk'[t].data.subs[o] = tk[t].data.subs[o]
                     /\ tk'[t].data.jobStatuses[o] = tk[t].data.jobStatuses[o]
       /\ Processed(t, j) /\ ~tk'[t].cur.threw =>
            LET d == processJobData(store, j, tk'[t].cur.k8s, tk'[t].cur.res)
            IN  /\ tk'[t].data.subs[j] = d.subs[j]
                /\ tk'[t].data.jobStatuses[j] = d.jobStatuses[j]]_vars

\* C17 witness: the scoring of job-a threw in this tick and job-b has been
\* processed after it.
C17_Witness ==
  \E t \in Slots :
    /\ tk[t].pc = "run"
    /\ tk[t].cur.job = "job-b"
    /\ ~tk[t].cur.threw
    /\ store.subs["job-a"].status # "evaluated"
    /\ tk[t].data.subs["job-a"].status = "evaluated"
    /\ tk[t].data.jobStatuses["job-a"] \in ActiveStatuses
    /\ tk[t].data.subs["job-a"].errorCount = store.subs["job-a"].errorCount + 1
    /\ tk[t].data.subs["job-b"] # store.subs["job-b"]

C19_MetricsIffEvaluated ==
  \A j \in Jobs :
    /\ store.subs[j].metrics # NullMetrics <=> store.subs[j].status = "evaluated"
    /\ \A t \in Slots :
         tk[t].pc = "run" =>
           (tk[t].data.subs[j].metrics # NullMetrics
              <=> tk[t].data.subs[j].status = "evaluated")

\* C19 witness: one submission is evaluated and holds metrics, the other is
\* failed and holds none.
C19_Witness ==
  \E j, o \in Jobs :
    /\ store.subs[j].status = "evaluated"
    /\ store.subs[j].metrics \in ReadyResults
    /\ store.subs[o].status = "failed"
    /\ store.subs[o].metrics = NullMetrics

C21_TriggerReturnsChanged ==
  [][\A t \in Slots :
       Finished(t) => (tk'[t].hasUpdates <=> tk[t].data # store)]_vars

(***************************************************************************)
(* The monitor driven by its timer only: startMonitoring runs a tick at    *)
(* once and arms setInterval, every firing starts a tick whatever is in    *)
(* flight, stopMonitoring clears the timer.  A started tick runs to its    *)
(* end: its awaited calls resolve.                                         *)
(***************************************************************************)
\* the orchestrator's answer in these runs: the jobs are running
TimerK8s == {"running"}

tickStepTimer(t) ==
  \/ tickLoad(t)
  \/ tickProcess(t, TimerK8s, BusyResults)
  \/ tickSave(t)

NextTimer ==
  \/ startMonitoring(TRUE)
  \/ intervalFires(TRUE)
  \/ stopMonitoring
  \/ \E t \in Slots : tickStepTimer(t)

SpecTimer ==
  /\ Init
  /\ [][NextTimer]_vars
  /\ \A t \in Slots : WF_vars(tickStepTimer(t))

\* a new execution of monitorJobStatuses begins in slot t
Launched(t) == tk[t].pc # "load" /\ tk'[t].pc = "load"

\* C22: a step that stops the monitor leaves every execution in flight and
\* the store as they are; an execution in flight always reaches its end and
\* its save writes its whole snapshot; and while the timer is cleared a tick
\* only begins with a startMonitoring call.
C22_StopLetsTickFinish ==
  /\ [][/\ monitoringInterval /\ ~monitoringInterval' => tk' = tk /\ store' = store
        /\ \A t \in Slots :
             /\ Finished(t) /\ tk[t].hasUpdates => store' = tk[t].data
             /\ Launched(t) /\ ~monitoringInterval =>
                  ~isMonitoring /\ isMonitoring' /\ monitoringInterval']_vars
  /\ \A t \in Slots : InFlight(t) ~> tk[t].pc = "done"

\* C22 witness: the timer is cleared while a tick that has changed its
\* snapshot is about to save.
C22_Witness ==
  /\ ~monitoringInterval
  /\ ~isMonitoring
  /\ \E t \in Slots :
       /\ tk[t].pc = "run"
       /\ tk[t].todo = <<>>
       /\ tk[t].hasUpdates
       /\ tk[t].data # store

(***************************************************************************)
(* getKubernetesJobStatus as a function of what kubectl answers.           *)
(*   lookups: the outcome of "kubectl get job" in the configured namespace *)
(*            and then in "default" and "eval-system": the job document is *)
(*            printed ("found"), the job is not there ("absent"), or the   *)
(*            command fails for another reason ("error": network, auth);   *)
(*            both failures reject the awaited exec call                   *)
(*   job:     the conditions and status.active of the job document         *)
(*   pods:    the outcome of "kubectl get pods -l job-name=...": the       *)
(*            first pod listed, an empty list, or a failing command        *)
(***************************************************************************)
LookupOutcomes == {"found", "absent", "error"}
ConditionValues == {"none", "True", "False"}
PodPhases == {"Pending", "Running", "Succeeded"}

JobDocs ==
  [complete : ConditionValues, failed : ConditionValues, active : {0, 1}]

PodListings ==
  {[kind |-> "error"], [kind |-> "empty"]}
    \cup [kind : {"pod"}, phase : PodPhases, scheduled : ConditionValues]

\* status.active counts the job's pending and running pods: with none active
\* the listing shows no pod
AdapterInputs ==
  {in \in [lookups : [1..3 -> LookupOutcomes], job : JobDocs, pods : PodListings] :
     in.job.active = 0 => in.pods.kind = "empty"}

\* the status read from the first listed pod, "running" for any other phase
podStatus(pod) ==
  IF pod.phase = "Pending"
  THEN IF pod.scheduled = "False" THEN "pending-resources" ELSE "pending"
  ELSE "running"

\* variant: the Failed condition is looked at before the Complete one
getKubernetesJobStatus_FailedFirst(in) ==
  IF \A n \in 1..3 : in.lookups[n] # "found" THEN "not-found"
  ELSE IF in.job.failed = "True" THEN "failed"
  ELSE IF in.job.complete = "True" THEN "completed"
  ELSE IF in.job.active > 0
  THEN IF in.pods.kind = "pod" THEN podStatus(in.pods) ELSE "running"
  ELSE "queued"

getKubernetesJobStatus(in) ==
  IF \A n \in 1..3 : in.lookups[n] # "found" THEN "not-found"
  ELSE IF in.job.complete = "True" THEN "completed"
  ELSE IF in.job.failed = "True" THEN "failed"
  ELSE IF in.job.active > 0
  THEN IF in.pods.kind = "pod" THEN podStatus(in.pods) ELSE "running"
  ELSE "queued"

InitAdapter ==
  /\ store = InitData
  /\ submissions = {}
  /\ tk = [t \in Slots |-> IdleTick]
  /\ isMonitoring = FALSE
  /\ monitoringInterval = FALSE
  /\ timers = 0
  /\ call \in [fn : {"getKubernetesJobStatus"}, input : AdapterInputs,
               result : {"pending-call"}]

\* the awaited call resolves
returnKubernetesJobStatus ==
  /\ call.fn = "getKubernetesJobStatus"
  /\ call.result = "pending-call"
  /\ call' = [call EXCEPT !.result = getKubernetesJobStatus(call.input)]
  /\ UNCHANGED <<store, submissions, tk, isMonitoring, monitoringInterval, timers>>

SpecAdapter == InitAdapter /\ [][returnKubernetesJobStatus]_vars

AdapterReturned ==
  call.fn = "getKubernetesJobStatus" /\ call.result # "pending-call"

\* C23: getKubernetesJobStatus returns one of its status strings and never
\* throws, and when every job lookup fails with an error of the query itself
\* (not with the job being absent) the answer is unknown.
C23_QueryErrorIsUnknown ==
  AdapterReturned =>
    /\ call.result \in K8sStatuses
    /\ (\A n \in 1..3 : call.input.lookups[n] = "error") => call.result = "unknown"

\* the mapping the adapter is specified by, where it says something
referenceStatus(in) ==
  IF in.job.complete = "True" THEN "completed"
  ELSE IF in.job.failed = "True" THEN "failed"
  ELSE IF in.pods.kind = "pod" /\ in.pods.phase = "Pending"
  THEN IF in.pods.scheduled = "False" THEN "pending-resources" ELSE "pending"
  ELSE IF in.pods.kind = "pod" /\ in.pods.phase = "Running" THEN "running"
  ELSE "unspecified"

RawRun(st, time) == [status |-> st, time |-> time]

RunLists ==
  {<<>>,
   <<RawRun("success", Num(10))>>,
   <<RawRun("success", Num(20))>>,
   <<RawRun("success", Num(0))>>,
   <<RawRun("success", Null)>>,
   <<RawRun("timeout", Null)>>,
   <<RawRun("success", Num(10)), RawRun("timeout", Null)>>,
   <<RawRun("success", Num(10)), RawRun("success", Num(20))>>}

RawQueries ==
  [status : {"success"}, runs : RunLists]
    \cup [status : {"failed", "missing"}, runs : {<<>>}]

\* a summary without a queries map, and summaries with the three queries
RawNoQueries == [kind |-> "rawnoqueries"]
RawSummaries ==
  {RawNoQueries} \cup [kind : {"raw"}, queries : [{"Q1", "Q2", "Q3"} -> RawQueries]]

isNumber(v) == v # Null /\ v # Undefined /\ v # NaN

validRuns(runs) ==
  SelectSeq(runs, LAMBDA r : r.status = "success" /\ isNumber(r.time))

RECURSIVE sumTimes(_)
sumTimes(runs) ==
  IF runs = <<>> THEN 0 ELSE Head(runs).time.v + sumTimes(Tail(runs))

\* one query of processSubmissionMetrics; avg_time stays as the raw summary
\* has it (undefined) when a success query has no run with a numeric time
processedQuery(q) ==
  IF q.status = "success" /\ Len(q.runs) > 0
  THEN Query(q.status,
             IF validRuns(q.runs) # <<>>
             THEN Num(sumTimes(validRuns(q.runs)) \div Len(validRuns(q.runs)))
             ELSE Undefined,
             \A n \in DOMAIN q.runs : q.runs[n].status = "success")
  ELSE Query(q.status, Null, FALSE)

processSubmissionMetrics(raw) ==
  IF raw.kind = "raw"
  THEN [kind |-> "metrics",
        queries |-> [q \in DOMAIN raw.queries |-> processedQuery(raw.queries[q])]]
  ELSE ResultNoQueries

(***************************************************************************)
(* fetchSubmissionResults as a function of what gsutil answers.            *)
(*   listing: "gsutil ls" of the job prefix fails, prints nothing or       *)
(*            prints entries                                               *)
(*   summary: "gsutil cat" of summary.json fails (no such object), prints  *)
(*            blanks, prints text that is not JSON, or prints a summary    *)
(*   logs:    the listing of the *.log files, piped through head           *)
(***************************************************************************)
SummaryReads ==
  {[kind |-> "absent"], [kind |-> "blank"], [kind |-> "unparseable"]}
    \cup RawSummaries

\* with nothing under the prefix there is no summary and there are no logs
FetcherInputs ==
  {in \in [listing : {"error", "empty", "nonempty"},
           summary : SummaryReads,
           logs : {"none", "some"}] :
     in.listing = "empty" => in.summary.kind = "absent" /\ in.logs = "none"}

isParsed(summary) == summary.kind \in {"raw", "rawnoqueries"}

\* variant: the log files are looked at before the summary
fetchSubmissionResults_LogsFirst(in) ==
  IF in.listing # "nonempty" THEN ResultNull
  ELSE IF in.logs = "some" THEN ResultProcessing
  ELSE IF isParsed(in.summary) THEN processSubmissionMetrics(in.summary)
  ELSE ResultNull

fetchSubmissionResults(in) ==
  IF in.listing # "nonempty" THEN ResultNull
  ELSE IF isParsed(in.summary) THEN processSubmissionMetrics(in.summary)
  ELSE IF in.logs = "some" THEN ResultProcessing
  ELSE ResultNull

InitFetcher ==
  /\ store = InitData
  /\ submissions = {}
  /\ tk = [t \in Slots |-> IdleTick]
  /\ isMonitoring = FALSE
  /\ monitoringInterval = FALSE
  /\ timers = 0
  /\ call \in [fn : {"fetchSubmissionResults"}, input : FetcherInputs,
               result : {NotCalled}, again : {NotCalled}]

\* the first call resolves
returnSubmissionResults ==
  /\ call.fn = "fetchSubmissionResults"
  /\ call.result = NotCalled
  /\ call' = [call EXCEPT !.result = fetchSubmissionResults(call.input)]
  /\ UNCHANGED <<store, submissions, tk, isMonitoring, monitoringInterval, timers>>

\* a second call on the same store contents resolves
returnSubmissionResultsAgain ==
  /\ call.fn = "fetchSubmissionResults"
  /\ call.result # NotCalled
  /\ call.again = NotCalled
  /\ call' = [call EXCEPT !.again = fetchSubmissionResults(call.input)]
  /\ UNCHANGED <<store, submissions, tk, isMonitoring, monitoringInterval, timers>>

NextFetcher == returnSubmissionResults \/ returnSubmissionResultsAgain

SpecFetcher == InitFetcher /\ [][NextFetcher]_vars

FetcherReturned ==
  call.fn = "fetchSubmissionResults" /\ call.result # NotCalled

isReady(r) == r.kind \in {"metrics", "noqueries"}

C26_UnparseableIsAbsent ==
  FetcherReturned /\ call.input.listing = "nonempty"
                  /\ call.input.summary.kind = "unparseable"
    => call.result = ResultNull

(***************************************************************************)
(* calculateScore on the metrics the two normalizers produce.              *)
(***************************************************************************)
\* processBaselineMetrics adds avg_time to a success query that has a run
\* with a numeric time and leaves every other query as the summary has it
processedBaselineQuery(q) ==
  Query(q.status,
        IF q.status = "success" /\ Len(q.runs) > 0 /\ validRuns(q.runs) # <<>>
        THEN Num(sumTimes(validRuns(q.runs)) \div Len(validRuns(q.runs)))
        ELSE Undefined,
        FALSE)

processBaselineMetrics(raw) ==
  IF raw.kind = "raw"
  THEN [kind |-> "metrics",
        queries |-> [q \in DOMAIN raw.queries |-> processedBaselineQuery(raw.queries[q])]]
  ELSE ResultNoQueries

BaselineRunLists ==
  {<<RawRun("success", Num(10))>>,
   <<RawRun("success", Num(20))>>,
   <<RawRun("success", Num(30))>>,
   <<RawRun("success", Num(0))>>,
   <<RawRun("success", Null)>>}

BaselineRawQueries ==
  [status : {"success"}, runs : BaselineRunLists]
    \cup [status : {"failed"}, runs : {<<>>}]

\* baseline summaries: with the three queries, or without Q1
BaselineRawSummaries ==
  {RawNoQueries}
    \cup [kind : {"raw"}, queries : [{"Q1", "Q2", "Q3"} -> BaselineRawQueries]]
    \cup [kind : {"raw"}, queries : [{"Q2", "Q3"} -> BaselineRawQueries]]

SubmissionMetricsInputs ==
  {NullMetrics} \cup {processSubmissionMetrics(raw) : raw \in RawSummaries}

BaselineMetricsInputs ==
  {NullMetrics}
    \cup {processBaselineMetrics(raw) : raw \in BaselineRawSummaries}
    \cup {processSubmissionMetrics(raw) : raw \in BaselineRawSummaries}

InitScore ==
  /\ store = InitData
  /\ submissions = {}
  /\ tk = [t \in Slots |-> IdleTick]
  /\ isMonitoring = FALSE
  /\ monitoringInterval = FALSE
  /\ timers = 0
  /\ call \in [fn : {"calculateScore"},
               submissionMetrics : SubmissionMetricsInputs,
               baselineMetrics : BaselineMetricsInputs,
               result : {Undefined}]

returnScore ==
  /\ call.fn = "calculateScore"
  /\ call.result = Undefined
  /\ call' = [call EXCEPT
                !.result = calculateScore(call.submissionMetrics, call.baselineMetrics)]
  /\ UNCHANGED <<store, submissions, tk, isMonitoring, monitoringInterval, timers>>

SpecScore == InitScore /\ [][returnScore]_vars

ScoreReturned == call.fn = "calculateScore" /\ call.result # Undefined

\* C27: calculateScore returns an integer from 0 to 100 for all metrics the
\* normalizers produce, a success query without a numeric run time or with
\* avg_time 0 included.
C27_ScoreBounds ==
  ScoreReturned =>
    /\ call.result # NaN
    /\ call.result.t = "num"
    /\ call.result.v \in 0..100

\* the queries of the submission that are success in submission and baseline
comparedQueries(sub, base) ==
  {q \in DOMAIN sub.queries :
     /\ q \in DOMAIN base.queries
     /\ sub.queries[q].status = "success"
     /\ base.queries[q].status = "success"}

failedQueries(sub) == {q \in DOMAIN sub.queries : sub.queries[q].status = "failed"}

\* both averages are numbers and the submission's is not 0
hasRatio(sub, base, q) ==
  /\ isNumber(base.queries[q].avg_time)
  /\ isNumber(sub.queries[q].avg_time)
  /\ sub.queries[q].avg_time.v > 0

\* the points of a compared query, in sixtieths of a point
pointsInSixtieths(sub, base, q) ==
  LET ratio == (1200 * base.queries[q].avg_time.v) \div sub.queries[q].avg_time.v
      capped == IF ratio > 2400 THEN 2400 ELSE ratio
  IN  capped + (IF sub.queries[q].correctness_check THEN 3600 ELSE 0)

RECURSIVE sumInSixtieths(_, _, _)
sumInSixtieths(sub, base, qs) ==
  IF qs = {} THEN 0
  ELSE LET q == CHOOSE x \in qs : TRUE
       IN  pointsInSixtieths(sub, base, q) + sumInSixtieths(sub, base, qs \ {q})

\* a failed query adds 0 to the sum and 1 to the denominator, in the baseline
\* or not: the score is the rounded sum of the compared queries' points over
\* the number of compared and failed queries
failedCountsAsZero ==
  LET sub == call.submissionMetrics
      base == call.baselineMetrics
  IN  /\ sub.kind = "metrics" /\ base.kind = "metrics"
      /\ \A q \in comparedQueries(sub, base) : hasRatio(sub, base, q)
      /\ failedQueries(sub) # {}
      => LET total == sumInSixtieths(sub, base, comparedQueries(sub, base))
             count == Cardinality(comparedQueries(sub, base))
                        + Cardinality(failedQueries(sub))
         IN  call.result = Num((2 * total + 60 * count) \div (120 * count))

\* one query failed, the two others equal to the baseline and correct
oneFailedTwoAsBaseline ==
  LET sub == call.submissionMetrics
      base == call.baselineMetrics
  IN  /\ sub.kind = "metrics" /\ base.kind = "metrics"
      /\ Cardinality(DOMAIN sub.queries) = 3
      /\ Cardinality(failedQueries(sub)) = 1
      /\ Cardinality(comparedQueries(sub, base)) = 2
      /\ \A q \in comparedQueries(sub, base) :
           /\ hasRatio(sub, base, q)
           /\ sub.queries[q].avg_time = base.queries[q].avg_time
           /\ sub.queries[q].correctness_check

\* C28 as stated: a failed query counts as 0 in the average, and one failed
\* query with two queries equal to baseline and correct scores 67.
C28_FailedCountsExample67 ==
  ScoreReturned =>
    /\ failedCountsAsZero
    /\ oneFailedTwoAsBaseline => call.result = Num(67)

\* C28 amended: a failed query counts as 0 in the average, and one failed
\* query with two queries equal to baseline and correct scores
\* round((0 + 80 + 80) / 3) = 53.
C28_FailedCountsExample53 ==
  ScoreReturned =>
    /\ failedCountsAsZero
    /\ oneFailedTwoAsBaseline => call.result = Num(53)

\* C28 witness: the failed query is not in the baseline, the two others equal
\* the baseline, and the score returned is 53.
C28_Witness ==
  /\ ScoreReturned
  /\ oneFailedTwoAsBaseline
  /\ failedQueries(call.submissionMetrics) \cap DOMAIN call.baselineMetrics.queries = {}
  /\ call.result = Num(53)

\* every query of the summary is success with all runs successful and takes
\* the (non-zero) time the same query takes in the baseline
identicalToBaseline(res, base) ==
  /\ res.kind = "metrics" /\ base.kind = "metrics"
  /\ \A q \in DOMAIN res.queries :
       /\ q \in DOMAIN base.queries
       /\ res.queries[q].status = "success"
       /\ base.queries[q].status = "success"
       /\ res.queries[q].correctness_check
       /\ isNumber(res.queries[q].avg_time)
       /\ res.queries[q].avg_time.v > 0
       /\ res.queries[q].avg_time = base.queries[q].avg_time

\* the last iteration of execution t handled a completed job whose summary is
\* identical to the cached baseline
scenarioA(t) ==
  /\ tk[t].pc = "run"
  /\ tk[t].cur.k8s = "completed"
  /\ identicalToBaseline(tk[t].cur.res, tk[t].data.baselineMetrics)

onlyCompared(q) ==
  LET sub == call.submissionMetrics
      base == call.baselineMetrics
  IN  /\ sub.kind = "metrics" /\ base.kind = "metrics"
      /\ comparedQueries(sub, base) = {q}
      /\ failedQueries(sub) = {}
      /\ isNumber(base.queries[q].avg_time)
      /\ isNumber(sub.queries[q].avg_time)

\* C30: for a query that is success on both sides the performance part is
\* 20 * baseline.avg_time / submission.avg_time kept within 0..40: equal
\* times earn 20, a submission at least twice as fast earns 40 and no more,
\* and with the 60 for correctness the contribution never exceeds 100.
C30_PerformanceClamp ==
  ScoreReturned =>
    \A q \in {"Q1", "Q2", "Q3"} :
      onlyCompared(q) =>
        LET b == call.baselineMetrics.queries[q].avg_time.v
            s == call.submissionMetrics.queries[q].avg_time.v
            c == IF call.submissionMetrics.queries[q].correctness_check
                 THEN 60 ELSE 0
        IN  /\ s > 0 /\ 20 * b <= 40 * s =>
                 call.result = Num(c + ((40 * b + s) \div (2 * s)))
            /\ s > 0 /\ b = s => call.result = Num(c + 20)
            /\ b > 0 /\ b >= 2 * s => call.result = Num(c + 40)
            /\ s > 0 \/ b > 0 =>
                 /\ call.result # NaN
                 /\ call.result.v >= c
                 /\ call.result.v <= c + 40
                 /\ call.result.v <= 100

\* C30 witness: a correct query three times as fast as the baseline earned
\* 40 + 60.
C30_Witness ==
  /\ ScoreReturned
  /\ \E q \in {"Q1", "Q2", "Q3"} :
       /\ onlyCompared(q)
       /\ call.baselineMetrics.queries[q].avg_time = Num(30)
       /\ call.submissionMetrics.queries[q].avg_time = Num(10)
       /\ call.submissionMetrics.queries[q].correctness_check
  /\ call.result = Num(100)

(***************************************************************************)
(* processSubmissionMetrics on any parsed JSON value, with every field it  *)
(* writes and the overall statistics.  Besides the entries a job writes,   *)
(* a queries map may hold entries of another shape:                        *)
(*   "null"         the entry is null                                      *)
(*   "number"       the entry is a number                                  *)
(*   "nostatus"     an object with runs and no status                      *)
(*   "runs-number"  status success, runs is a number                       *)
(*   "runs-string"  status success, runs is a non-empty string             *)
(*   "run-null"     status success, runs is an array holding null          *)
(***************************************************************************)
MalformedEntries ==
  [malformed : {"null", "number", "nostatus", "runs-number", "runs-string", "run-null"}]

isObjectEntry(e) == "malformed" \notin DOMAIN e

ParsedEntries == RawQueries \cup MalformedEntries

\* JSON that is no object with a queries map (null, a number, {}), an empty
\* queries map, and queries maps over the three queries
ParsedSummaries ==
  {[kind |-> "scalar"], RawNoQueries, [kind |-> "raw", queries |-> <<>>]}
    \cup [kind : {"raw"}, queries : [{"Q1", "Q2", "Q3"} -> ParsedEntries]]

Throws == [kind |-> "throws"]

NoStatus == "(undefined)"

\* the else branch: timings null, success_rate 0, correctness_check false
failedEntry(st) ==
  [status |-> st, avg_time |-> Null, min_time |-> Null, max_time |-> Null,
   success_rate |-> Num(<<0, 1>>), correctness_check |-> FALSE]

runTimes(runs) == {runs[n].time.v : n \in DOMAIN runs}

\* variant: one successful run is enough for correctness_check
processedEntry_AnyRunSucceeds(e) ==
  IF ~isObjectEntry(e)
  THEN CASE e.malformed = "null" -> Throws
         [] e.malformed = "number" -> Throws
         [] e.malformed = "nostatus" -> failedEntry(NoStatus)
         [] e.malformed = "runs-number" -> failedEntry("success")
         [] e.malformed = "runs-string" -> Throws
         [] e.malformed = "run-null" -> Throws
  ELSE IF e.status = "success" /\ Len(e.runs) > 0
  THEN LET valid == validRuns(e.runs)
           cc == \E n \in DOMAIN e.runs : e.runs[n].status = "success"
       IN  IF valid # <<>>
           THEN [status |-> e.status,
                 avg_time |-> Num(sumTimes(valid) \div Len(valid)),
                 min_time |-> Num(CHOOSE m \in runTimes(valid) :
                                    \A o \in runTimes(valid) : m <= o),
                 max_time |-> Num(CHOOSE m \in runTimes(valid) :
                                    \A o \in runTimes(valid) : m >= o),
                 success_rate |-> Num(<<Len(valid), Len(e.runs)>>),
                 correctness_check |-> cc]
           ELSE [status |-> e.status, avg_time |-> Undefined,
                 min_time |-> Undefined, max_time |-> Undefined,
                 success_rate |-> Undefined, correctness_check |-> cc]
  ELSE failedEntry(e.status)

\* the forEach body: the entry after processing, or the TypeError it raises
\* (query.status of null; assignment to a property of a primitive in strict
\* mode; runs.filter of a string; run.status of null)
processedEntry(e) ==
  IF ~isObjectEntry(e)
  THEN CASE e.malformed = "null" -> Throws
         [] e.malformed = "number" -> Throws
         [] e.malformed = "nostatus" -> failedEntry(NoStatus)
         [] e.malformed = "runs-number" -> failedEntry("success")
         [] e.malformed = "runs-string" -> Throws
         [] e.malformed = "run-null" -> Throws
  ELSE IF e.status = "success" /\ Len(e.runs) > 0
  THEN LET valid == validRuns(e.runs)
           cc == \A n \in DOMAIN e.runs : e.runs[n].status = "success"
       IN  IF valid # <<>>
           THEN [status |-> e.status,
                 avg_time |-> Num(sumTimes(valid) \div Len(valid)),
                 min_time |-> Num(CHOOSE m \in runTimes(valid) :
                                    \A o \in runTimes(valid) : m <= o),
                 max_time |-> Num(CHOOSE m \in runTimes(valid) :
                                    \A o \in runTimes(valid) : m >= o),
                 success_rate |-> Num(<<Len(valid), Len(e.runs)>>),
                 correctness_check |-> cc]
           ELSE [status |-> e.status, avg_time |-> Undefined,
                 min_time |-> Undefined, max_time |-> Undefined,
                 success_rate |-> Undefined, correctness_check |-> cc]
  ELSE failedEntry(e.status)

RECURSIVE sumAvgTimes(_, _)
sumAvgTimes(queries, qs) ==
  IF qs = {} THEN 0
  ELSE LET q == CHOOSE x \in qs : TRUE
       IN  queries[q].avg_time.v + sumAvgTimes(queries, qs \ {q})

\* variant: a query without a numeric avg_time counts as 0 in the mean
calculateOverallAverageTime_CountsAll(queries) ==
  LET valid == {q \in DOMAIN queries : isNumber(queries[q].avg_time)}
  IN  IF valid # {}
      THEN Num(<<sumAvgTimes(queries, valid), Cardinality(DOMAIN queries)>>)
      ELSE Null

\* the mean as the fraction <<sum, count>>, or null
calculateOverallAverageTime(queries) ==
  LET valid == {q \in DOMAIN queries : isNumber(queries[q].avg_time)}
  IN  IF valid # {}
      THEN Num(<<sumAvgTimes(queries, valid), Cardinality(valid)>>)
      ELSE Null

overallStatistics(queries) ==
  LET correct == {q \in DOMAIN queries : queries[q].correctness_check}
  IN  [total_queries |-> Cardinality(DOMAIN queries),
       successful_queries |-> Cardinality(correct),
       overall_success_rate |->
         IF DOMAIN queries # {}
         THEN Num(<<Cardinality(correct), Cardinality(DOMAIN queries)>>)
         ELSE Num(<<0, 1>>),
       avg_execution_time |-> calculateOverallAverageTime(queries)]

\* what a call of processSubmissionMetrics gives for a parsed value
normalizedMetrics(raw) ==
  IF raw.kind # "raw" THEN ResultNoQueries
  ELSE LET queries == [q \in DOMAIN raw.queries |-> processedEntry(raw.queries[q])]
       IN  IF \E q \in DOMAIN queries : queries[q] = Throws
           THEN Throws
           ELSE [kind |-> "metrics", queries |-> queries,
                 overall |-> overallStatistics(queries)]

InitNormalizer ==
  /\ store = InitData
  /\ submissions = {}
  /\ tk = [t \in Slots |-> IdleTick]
  /\ isMonitoring = FALSE
  /\ monitoringInterval = FALSE
  /\ timers = 0
  /\ call \in [fn : {"processSubmissionMetrics"}, rawMetrics : ParsedSummaries,
               result : {NotCalled}]

returnNormalizedMetrics ==
  /\ call.fn = "processSubmissionMetrics"
  /\ call.result = NotCalled
  /\ call' = [call EXCEPT !.result = normalizedMetrics(call.rawMetrics)]
  /\ UNCHANGED <<store, submissions, tk, isMonitoring, monitoringInterval, timers>>

SpecNormalizer == InitNormalizer /\ [][returnNormalizedMetrics]_vars

\* the call has returned metrics with a queries map
NormalizerReturned ==
  call.fn = "processSubmissionMetrics" /\ call.result.kind = "metrics"

\* C31: a query with a run whose status is not success has correctness_check
\* false however many runs succeeded; correctness_check is true only for a
\* success query with at least one run and every run successful.
C31_CorrectnessStrict ==
  NormalizerReturned =>
    \A q \in DOMAIN call.result.queries :
      LET e == call.rawMetrics.queries[q]
          out == call.result.queries[q]
      IN  /\ isObjectEntry(e)
             /\ (\E n \in DOMAIN e.runs : e.runs[n].status # "success")
               => ~out.correctness_check
          /\ out.correctness_check =>
               /\ isObjectEntry(e)
               /\ e.status = "success"
               /\ Len(e.runs) >= 1
               /\ \A n \in DOMAIN e.runs : e.runs[n].status = "success"

\* C31 witness: a success query with one successful run and one timeout came
\* out with an average and correctness_check false.
C31_Witness ==
  /\ NormalizerReturned
  /\ \E q \in DOMAIN call.result.queries :
       /\ isObjectEntry(call.rawMetrics.queries[q])
       /\ call.rawMetrics.queries[q].runs
            = <<RawRun("success", Num(10)), RawRun("timeout", Null)>>
       /\ call.result.queries[q].avg_time = Num(10)
       /\ ~call.result.queries[q].correctness_check

\* the call of processSubmissionMetrics has ended, by return or by throw
NormalizerEnded == call.fn = "processSubmissionMetrics" /\ call.result # NotCalled

\* C32: processSubmissionMetrics returns for every parsed value, and a query
\* entry that is null, not an object, without status or with runs that is no
\* array comes out with null timings, success_rate 0 and correctness_check
\* false.
C32_NormalizerNeverThrows ==
  NormalizerEnded =>
    /\ call.result # Throws
    /\ call.result.kind = "metrics" =>
         \A q \in DOMAIN call.result.queries :
           ~isObjectEntry(call.rawMetrics.queries[q]) =>
             /\ call.result.queries[q].avg_time = Null
             /\ call.result.queries[q].min_time = Null
             /\ call.result.queries[q].max_time = Null
             /\ call.result.queries[q].success_rate = Num(<<0, 1>>)
             /\ ~call.result.queries[q].correctness_check

\* C33: overall.total_queries is the number of queries, successful_queries
\* the number of queries with correctness_check true, and avg_execution_time
\* the mean of the numeric avg_time values, or null when there is none.
C33_OverallStatistics ==
  NormalizerReturned =>
    LET queries == call.result.queries
        overall == call.result.overall
        timed == {q \in DOMAIN queries : queries[q].avg_time.t = "num"}
    IN  /\ overall.total_queries = Cardinality(DOMAIN queries)
        /\ overall.successful_queries
             = Cardinality({q \in DOMAIN queries : queries[q].correctness_check})
        /\ timed = {} => overall.avg_execution_time = Null
        /\ timed # {} =>
             /\ overall.avg_execution_time # Null
             /\ overall.avg_execution_time.v[1] * Cardinality(timed)
                  = sumAvgTimes(queries, timed) * overall.avg_execution_time.v[2]

\* C33 witness: three queries, one correct with average 10, one with average
\* 20 and a failed run, one failed: two timed queries, mean 15.
C33_Witness ==
  /\ NormalizerReturned
  /\ call.result.overall.total_queries = 3
  /\ call.result.overall.successful_queries = 1
  /\ call.result.overall.avg_execution_time = Num(<<30, 2>>)
  /\ \E q \in DOMAIN call.result.queries : call.result.queries[q].avg_time = Null

\* the place of a submission status in the order queued, {pending,
\* pending-resources, running}, processing, {evaluated, failed}
statusRank(st) ==
  CASE st \in {"submitted", "queued"} -> 0
    [] st \in {"pending", "pending-resources", "running"} -> 1
    [] st = "processing" -> 2
    [] st \in TerminalStatuses -> 3

\* C34: an iteration never moves a submission backwards in the order of
\* statuses; in particular a processing submission is not set back to
\* pending, pending-resources, running or queued.
C34_StatusOnlyForward ==
  [][\A t \in Slots, j \in Jobs :
       Processed(t, j) =>
         /\ statusRank(tk'[t].data.subs[j].status)
              >= statusRank(tk[t].data.subs[j].status)
         /\ tk[t].data.subs[j].status = "processing" =>
              tk'[t].data.subs[j].status \notin PendingLike]_vars

\* C35: a tick makes a submission failed only when the adapter answered
\* failed for its job in that tick or the tick's increment took errorCount to
\* maxRetries or beyond, and makes it evaluated only when the Result Fetcher
\* returned metrics with a queries map in that tick.  (Ticks run one after
\* the other, so store holds what the tick loaded.)
C35_TerminalOnlyWithCause ==
  \A t \in Slots :
    tk[t].pc = "run" /\ tk[t].cur.job \in Jobs =>
      LET j == tk[t].cur.job
          old == store.subs[j]
          new == tk[t].data.subs[j]
      IN  /\ new.status = "failed" /\ old.status # "failed" =>
               \/ tk[t].cur.k8s = "failed"
               \/ /\ new.errorCount = old.errorCount + 1
                  /\ new.errorCount >= MaxRetries
          /\ new.status = "evaluated" /\ old.status # "evaluated" =>
               hasQueries(tk[t].cur.res)

\* C35 witness: an iteration whose adapter answer was not failed made the
\* submission failed by taking errorCount to maxRetries.
C35_Witness ==
  \E t \in Slots :
    /\ tk[t].pc = "run"
    /\ tk[t].cur.job \in Jobs
    /\ tk[t].cur.k8s = "not-found"
    /\ store.subs[tk[t].cur.job].status \notin TerminalStatuses
    /\ store.subs[tk[t].cur.job].errorCount = MaxRetries - 1
    /\ tk[t].data.subs[tk[t].cur.job].status = "failed"
    /\ tk[t].data.subs[tk[t].cur.job].errorCount = MaxRetries

\* C36: with ticks one after the other, errorCount never exceeds maxRetries,
\* in the store and in the snapshot a tick works on, and a submission whose
\* errorCount equals maxRetries is failed.
C36_ErrorCountBounded ==
  /\ \A j \in Jobs :
       /\ store.subs[j].errorCount <= MaxRetries
       /\ store.subs[j].errorCount = MaxRetries => store.subs[j].status = "failed"
  /\ \A t \in Slots, j \in Jobs :
       tk[t].pc = "run" =>
         /\ tk[t].data.subs[j].errorCount <= MaxRetries
         /\ tk[t].data.subs[j].errorCount = MaxRetries =>
              tk[t].data.subs[j].status = "failed"

\* C36 witness: one submission has been saved failed with errorCount at
\* maxRetries while another, not failed, has a saved count below it.
C36_Witness ==
  \E j, o \in Jobs :
    /\ store.subs[j].errorCount = MaxRetries
    /\ store.subs[j].status = "failed"
    /\ store.subs[o].errorCount > 0
    /\ store.subs[o].errorCount < MaxRetries
    /\ store.subs[o].status # "failed"

\* C37: the job-status map and the submissions agree: the entry is completed
\* exactly for an evaluated submission and failed exactly for a failed one,
\* in the store and in a tick's snapshot, and an entry of processing,
\* pending, pending-resources or running that the tick has set is the
\* status of the submission.
C37_ViewsAgree ==
  /\ \A j \in Jobs :
       /\ store.jobStatuses[j] = "completed" <=> store.subs[j].status = "evaluated"
       /\ store.jobStatuses[j] = "failed" <=> store.subs[j].status = "failed"
  /\ \A t \in Slots :
       tk[t].pc = "run" /\ tk[t].cur.job \in Jobs =>
         LET j == tk[t].cur.job
             entry == tk[t].data.jobStatuses[j]
         IN  /\ entry = "completed" <=> tk[t].data.subs[j].status = "evaluated"
             /\ entry = "failed" <=> tk[t].data.subs[j].status = "failed"
             /\ entry # store.jobStatuses[j]
                /\ entry \in {"processing", "pending", "pending-resources", "running"}
                  => tk[t].data.subs[j].status = entry

(***************************************************************************)
(* startMonitoring and stopMonitoring called in any order; the ticks they  *)
(* start run on.  The interval is never left to fire here, so a tick that  *)
(* starts was started by a call.                                           *)
(***************************************************************************)
NextLifecycle ==
  \/ startMonitoring(TRUE)
  \/ stopMonitoring
  \/ \E t \in Slots : tickStepTimer(t)

SpecLifecycle == Init /\ [][NextLifecycle]_vars

\* C38: at most one interval timer exists, isMonitoring is true exactly when
\* it exists (and the handle is kept), and a timer is created or a tick
\* started only by a startMonitoring call made while not monitoring.
C38_OneTimer ==
  /\ [](/\ timers <= 1
        /\ isMonitoring <=> timers = 1
        /\ monitoringInterval <=> timers = 1)
  /\ [][/\ timers' > timers => ~isMonitoring /\ isMonitoring'
        /\ \A t \in Slots :
             Launched(t) => ~isMonitoring /\ isMonitoring' /\ timers' = timers + 1
        /\ isMonitoring /\ isMonitoring' =>
             timers' = timers /\ \A t \in Slots : ~Launched(t)]_vars

\* C38 witness: monitoring was started, stopped and started again; one timer
\* exists while the tick of the first start is still in flight.
C38_Witness ==
  /\ isMonitoring
  /\ timers = 1
  /\ Cardinality({t \in Slots : InFlight(t)}) >= 2

(***************************************************************************)
(* The monitor of utils/submissionResults.js, the class the server         *)
(* instantiates: its tick asks the object store only, for the jobs the map *)
(* has as running, queued or processing.                                   *)
(***************************************************************************)
runningJobs(data) ==
  SelectSeq(JobOrder,
            LAMBDA j : data.jobStatuses[j] \in {"running", "queued", "processing"})

\* errorCount + 1, failed once it reaches maxRetries; no error text is set
countErrorNoMessage(data, j) ==
  LET n == data.subs[j].errorCount + 1
  IN  IF n >= MaxRetries
      THEN [data EXCEPT !.subs[j].errorCount = n,
                        !.subs[j].status = "failed",
                        !.subs[j].completedAt = "ts",
                        !.jobStatuses[j] = "failed"]
      ELSE [data EXCEPT !.subs[j].errorCount = n]

resultsTickLoad(t) ==
  /\ tk[t].pc = "load"
  /\ tk' = [tk EXCEPT ![t].pc = "run",
                      ![t].data = store,
                      ![t].todo = runningJobs(store)]
  /\ UNCHANGED <<store, submissions, call, isMonitoring, monitoringInterval, timers>>

resultsTickProcess(t, R) ==
  /\ tk[t].pc = "run"
  /\ tk[t].todo # <<>>
  /\ LET j == Head(tk[t].todo)
         d == tk[t].data
     IN  \E r \in R :
           tk' = [tk EXCEPT
                    ![t].data =
                       IF hasQueries(r) THEN markEvaluated(d, j, r)
                       ELSE IF r.kind = "processing"
                       THEN [d EXCEPT !.jobStatuses[j] = "processing"]
                       ELSE countErrorNoMessage(d, j),
                    ![t].hasUpdates =
                       \/ @
                       \/ hasQueries(r)
                       \/ r.kind = "processing" /\ d.jobStatuses[j] # "processing"
                       \/ /\ ~hasQueries(r) /\ r.kind # "processing"
                          /\ d.subs[j].errorCount + 1 >= MaxRetries,
                    ![t].cur = [job |-> j, k8s |-> "none", res |-> r,
                                threw |-> FALSE],
                    ![t].todo = Tail(@)]
  /\ UNCHANGED <<store, submissions, call, isMonitoring, monitoringInterval, timers>>

NextResults ==
  \/ startMonitoring(FALSE)
  \/ intervalFires(FALSE)
  \/ stopMonitoring
  \/ triggerMonitoring(FALSE)
  \/ fetchBaselineMetrics(FALSE)
  \/ \E t \in Slots : resultsTickLoad(t)
  \/ \E t \in Slots : resultsTickProcess(t, FetchResults)
  \/ \E t \in Slots : tickSave(t)

SpecResults == Init /\ [][NextResults]_vars

\* C39: in the store and in every tick's snapshot, completedAt is set
\* exactly on the evaluated and failed submissions, and every failed
\* submission carries an error message.
C39_TerminalFields ==
  /\ \A j \in Jobs :
       /\ store.subs[j].completedAt # "null"
            <=> store.subs[j].status \in TerminalStatuses
       /\ store.subs[j].status = "failed" => store.subs[j].error # "null"
  /\ \A t \in Slots, j \in Jobs :
       tk[t].pc = "run" =>
         /\ tk[t].data.subs[j].completedAt # "null"
              <=> tk[t].data.subs[j].status \in TerminalStatuses
         /\ tk[t].data.subs[j].status = "failed" =>
              tk[t].data.subs[j].error # "null"

\* the metrics without query q
withoutQuery(m, q) ==
  [m EXCEPT !.queries = [x \in DOMAIN m.queries \ {q} |-> m.queries[x]]]

\* the queries of the submission that calculateScore passes over
passedOver(sub, base) ==
  DOMAIN sub.queries \ (comparedQueries(sub, base) \cup failedQueries(sub))

\* C40: only failed queries and queries that are success on both sides count:
\* taking a query that is neither out of the submission, and then also out of
\* the baseline, leaves the score as it is; with no query that counts, or a
\* null baseline or null submission metrics, the score is 0.
C40_OnlyContributingCount ==
  ScoreReturned =>
    LET sub == call.submissionMetrics
        base == call.baselineMetrics
    IN  /\ sub = NullMetrics \/ base = NullMetrics => call.result = Num(0)
        /\ sub.kind = "metrics" /\ base.kind = "metrics" =>
             /\ \A q \in passedOver(sub, base) :
                  /\ calculateScore(withoutQuery(sub, q), base) = call.result
                  /\ q \in DOMAIN base.queries =>
                       calculateScore(withoutQuery(sub, q), withoutQuery(base, q))
                         = call.result
             /\ comparedQueries(sub, base) \cup failedQueries(sub) = {} =>
                  call.result = Num(0)

\* C40 witness: one query is success without a baseline entry, one is
\* missing, and the third, equal to the baseline and correct, alone makes
\* the score 80.
C40_Witness ==
  /\ ScoreReturned
  /\ call.submissionMetrics.kind = "metrics"
  /\ call.baselineMetrics.kind = "metrics"
  /\ \E q \in passedOver(call.submissionMetrics, call.baselineMetrics) :
       /\ q \notin DOMAIN call.baselineMetrics.queries
       /\ call.submissionMetrics.queries[q].status = "success"
  /\ \E q \in passedOver(call.submissionMetrics, call.baselineMetrics) :
       call.submissionMetrics.queries[q].status = "missing"
  /\ Cardinality(comparedQueries(call.submissionMetrics, call.baselineMetrics)) = 1
  /\ call.result = Num(80)

====
